---- MODULE Spec2Model ----
(***************************************************************************)
(* Model of ig_unfollow/unfollow_check.py: the Instagram non-followers     *)
(* checker.  Text is a sequence of one-character strings; a parsed JSON    *)
(* value is a tagged record [tag, val]; a JSON object keeps its entries in *)
(* enumeration order, as Python's dict does.                               *)
(***************************************************************************)
EXTENDS Naturals, Sequences, FiniteSets

VARIABLES
    pc,                 \* position of the running function
    username,           \* argument of _normalize_username
    variant,            \* a second argument, compared with username
    normalized,         \* _normalize_username(username)
    normalizedVariant,  \* _normalize_username(variant)
    renormalized,       \* _normalize_username(normalized)
    data,               \* load_usernames: the parsed JSON document
    candidates,         \* load_usernames: the records _extract_candidates returned
    idx,                \* load_usernames: position of the loop over candidates
    usernames,          \* load_usernames: the set built so far
    followersFile,      \* followers.json in the working directory
    followingFile,      \* following.json in the working directory
    outFile,            \* not_following_back.csv in the working directory
    followers,          \* main: load_usernames(followers_path)
    following,          \* main: load_usernames(following_path)
    not_following_back, \* main: sorted(following - followers)
    exitCode            \* exit status of the process, once pc = "exited"

normVars == <<username, variant, normalized, normalizedVariant, renormalized>>
loadVars == <<data, candidates, idx, usernames>>
fileVars == <<followersFile, followingFile, outFile>>
mainVars == <<fileVars, followers, following, not_following_back, exitCode>>
vars == <<pc, normVars, loadVars, mainVars>>

-----------------------------------------------------------------------------
(* Bounds *)

\* longest text enumerated as an argument of _normalize_username
MaxLen == 3

\* most elements of an enumerated list-shaped document
MaxItems == 3

\* most entries of an enumerated mapping-shaped document
MaxEntries == 3

\* most records of an enumerated export file
MaxRecords == 2

-----------------------------------------------------------------------------
(* Text *)

\* characters str.strip() removes
Whitespace == {" ", "\t", "\n"}

\* characters of the enumerated arguments
Chars == {" ", "@", "A", "a"}

\* all texts over Chars of length at most n
Strings(n) == UNION {[1..k -> Chars] : k \in 0..n}

Tail1(s) == SubSeq(s, 2, Len(s))
Front1(s) == SubSeq(s, 1, Len(s) - 1)

\* str.lstrip(chars): drop leading characters while they belong to chars
RECURSIVE LStrip(_, _)
LStrip(s, chars) ==
    IF s # <<>> /\ s[1] \in chars THEN LStrip(Tail1(s), chars) ELSE s

\* str.rstrip(chars): drop trailing characters while they belong to chars
RECURSIVE RStrip(_, _)
RStrip(s, chars) ==
    IF s # <<>> /\ s[Len(s)] \in chars THEN RStrip(Front1(s), chars) ELSE s

\* str.strip(): both ends, whitespace
Strip(s) == RStrip(LStrip(s, Whitespace), Whitespace)

\* str.lower() on one character
LowerChar(c) ==
    CASE c = "A" -> "a"
      [] c = "B" -> "b"
      [] c = "C" -> "c"
      [] OTHER -> c

\* str.lower()
Lower(s) == [i \in 1..Len(s) |-> LowerChar(s[i])]

-----------------------------------------------------------------------------
(* _normalize_username *)

\* a normalizer that removes one leading "@" only
NormalizeOneAt(s) ==
    LET t == Strip(s)
    IN  Lower(IF t # <<>> /\ t[1] = "@" THEN Tail1(t) ELSE t)

\* username.strip().lstrip("@").lower()
_normalize_username(s) == Lower(LStrip(Strip(s), {"@"}))

-----------------------------------------------------------------------------
(* Parsed JSON values (what json.loads returns) *)

JNull == [tag |-> "null", val |-> <<>>]
JNum == [tag |-> "num", val |-> <<>>]
JStr(text) == [tag |-> "str", val |-> text]
JList(items) == [tag |-> "list", val |-> items]
\* entries: a sequence of [k, v], distinct keys, in enumeration order
JDict(entries) == [tag |-> "dict", val |-> entries]

\* dict.get(key): the value under key, None when the key is absent
Get(d, key) ==
    IF \E i \in 1..Len(d.val) : d.val[i].k = key
    THEN d.val[CHOOSE i \in 1..Len(d.val) : d.val[i].k = key].v
    ELSE JNull

-----------------------------------------------------------------------------
(* _extract_candidates *)

common_keys ==
    <<"relationships_following", "relationships_followers", "following", "followers">>

\* a comprehension that keeps every element
AllItems(items) == items

\* [item for item in items if isinstance(item, dict)]
RECURSIVE DictItems(_)
DictItems(items) ==
    IF items = <<>> THEN <<>>
    ELSE IF items[1].tag = "dict"
         THEN <<items[1]>> \o DictItems(Tail1(items))
         ELSE DictItems(Tail1(items))

\* for value in data.values(): the first list value, else fall out of the loop
RECURSIVE ScanValues(_, _)
ScanValues(d, i) ==
    IF i > Len(d.val) THEN <<>>
    ELSE IF d.val[i].v.tag = "list"
         THEN DictItems(d.val[i].v.val)
         ELSE ScanValues(d, i + 1)

\* a probe that skips the known keys and scans the values at once
ProbeNothing(d, i) == ScanValues(d, 1)

\* for key in common_keys: the first key holding a list, else the fallback scan
RECURSIVE ProbeCommonKeys(_, _)
ProbeCommonKeys(d, i) ==
    IF i > Len(common_keys) THEN ScanValues(d, 1)
    ELSE IF Get(d, common_keys[i]).tag = "list"
         THEN DictItems(Get(d, common_keys[i]).val)
         ELSE ProbeCommonKeys(d, i + 1)

\* an extraction that takes a mapping without any list for a single record
ExtractOrWrap(doc) ==
    IF doc.tag = "list" THEN DictItems(doc.val)
    ELSE IF doc.tag = "dict"
         THEN IF ProbeCommonKeys(doc, 1) = <<>> THEN <<doc>> ELSE ProbeCommonKeys(doc, 1)
    ELSE <<>>

\* lines 19-41
_extract_candidates(doc) ==
    IF doc.tag = "list" THEN DictItems(doc.val)
    ELSE IF doc.tag = "dict" THEN ProbeCommonKeys(doc, 1)
    ELSE <<>>

-----------------------------------------------------------------------------
(* load_usernames: the body of the loop over the candidates *)

\* isinstance(value, str) and value.strip()
IsFilledText(value) == value.tag = "str" /\ Strip(value.val) # <<>>

\* lines 61-68: TRUE when the record's string_list_data supplies the username
HasListedValue(item) ==
    LET string_list_data == Get(item, "string_list_data")
    IN  /\ string_list_data.tag = "list"
        /\ string_list_data.val # <<>>
        /\ string_list_data.val[1].tag = "dict"
        /\ IsFilledText(Get(string_list_data.val[1], "value"))

ListedValue(item) == Get(Get(item, "string_list_data").val[1], "value").val

flat_keys == <<"username", "value">>

\* lines 70-74: for key in ("username", "value"), the first filled text
RECURSIVE FlatFields(_, _)
FlatFields(item, i) ==
    IF i > Len(flat_keys) THEN {}
    ELSE IF IsFilledText(Get(item, flat_keys[i]))
         THEN {_normalize_username(Get(item, flat_keys[i]).val)}
         ELSE FlatFields(item, i + 1)

\* a loop body that consults the flat fields first
ItemUsernamesFlatFirst(item) ==
    IF FlatFields(item, 1) # {} THEN FlatFields(item, 1)
    ELSE IF HasListedValue(item) THEN {_normalize_username(ListedValue(item))}
    ELSE {}

\* what one pass of the loop adds to usernames
ItemUsernames(item) ==
    IF HasListedValue(item)
    THEN {_normalize_username(ListedValue(item))}
    ELSE FlatFields(item, 1)

\* the whole loop, from position i
RECURSIVE AddFrom(_, _, _)
AddFrom(items, i, acc) ==
    IF i > Len(items) THEN acc
    ELSE AddFrom(items, i + 1, acc \cup ItemUsernames(items[i]))

\* load_usernames on a parsed document
load_usernames(doc) == AddFrom(_extract_candidates(doc), 1, {})

-----------------------------------------------------------------------------
(* sorted, write_csv and the files main works on *)

\* ord(c)
CodePoint(c) ==
    CASE c = "\t" -> 9
      [] c = "\n" -> 10
      [] c = " " -> 32
      [] c = "@" -> 64
      [] c = "A" -> 65
      [] c = "B" -> 66
      [] c = "C" -> 67
      [] c = "a" -> 97
      [] c = "b" -> 98
      [] c = "c" -> 99

\* s < t on str: the first differing character decides, a proper prefix is less
RECURSIVE TextLess(_, _)
TextLess(s, t) ==
    IF t = <<>> THEN FALSE
    ELSE IF s = <<>> THEN TRUE
    ELSE IF s[1] = t[1] THEN TextLess(Tail1(s), Tail1(t))
    ELSE CodePoint(s[1]) < CodePoint(t[1])

\* x put into the ascending sequence seq
RECURSIVE Insert(_, _)
Insert(x, seq) ==
    IF seq = <<>> THEN <<x>>
    ELSE IF TextLess(seq[1], x) THEN <<seq[1]>> \o Insert(x, Tail1(seq))
    ELSE <<x>> \o seq

\* x put into the descending sequence seq
RECURSIVE InsertDescending(_, _)
InsertDescending(x, seq) ==
    IF seq = <<>> THEN <<x>>
    ELSE IF TextLess(x, seq[1]) THEN <<seq[1]>> \o InsertDescending(x, Tail1(seq))
    ELSE <<x>> \o seq

\* a sort with the order reversed
RECURSIVE sortedDescending(_)
sortedDescending(S) ==
    IF S = {} THEN <<>>
    ELSE LET x == CHOOSE y \in S : TRUE
         IN  InsertDescending(x, sortedDescending(S \ {x}))

\* sorted(S) on a set of str: the elements in ascending order, whatever the
\* order the set hands them out in
RECURSIVE sorted(_)
sorted(S) ==
    IF S = {} THEN <<>>
    ELSE LET x == CHOOSE y \in S : TRUE
         IN  Insert(x, sorted(S \ {x}))

\* the header row
header == <<"u", "s", "e", "r", "n", "a", "m", "e">>

\* the rows write_csv leaves in the file: the header, then one row per username
RECURSIVE CsvRows(_)
CsvRows(names) ==
    IF names = <<>> THEN << <<header>> >>
    ELSE CsvRows(Front1(names)) \o << <<names[Len(names)]>> >>

\* a file of the working directory: absent, not JSON, or JSON text of doc
AbsentFile == [state |-> "absent", doc |-> JNull]
InvalidFile == [state |-> "invalid", doc |-> JNull]
JsonFile(doc) == [state |-> "json", doc |-> doc]

\* not_following_back.csv before the run: absent, or left by an earlier run
NoCsv == [exists |-> FALSE, rows |-> <<>>]
StaleCsv == [exists |-> TRUE, rows |-> << <<header>>, << <<"c">> >> >>]

-----------------------------------------------------------------------------
(* Specification of _normalize_username on enumerated arguments *)

\* the variables of the other functions, at rest
IdleNormalize ==
    /\ username = <<>>
    /\ variant = <<>>
    /\ normalized = <<>>
    /\ normalizedVariant = <<>>
    /\ renormalized = <<>>

IdleLoad ==
    /\ data = JNull
    /\ candidates = <<>>
    /\ idx = 0
    /\ usernames = {}

IdleMain ==
    /\ followersFile = AbsentFile
    /\ followingFile = AbsentFile
    /\ outFile = NoCsv
    /\ followers = {}
    /\ following = {}
    /\ not_following_back = <<>>
    /\ exitCode = 0

InitNormalize ==
    /\ pc = "normalize"
    /\ username \in Strings(MaxLen)
    /\ variant \in Strings(MaxLen)
    /\ normalized = <<>>
    /\ normalizedVariant = <<>>
    /\ renormalized = <<>>
    /\ IdleLoad
    /\ IdleMain

\* the two arguments are normalized
Normalize ==
    /\ pc = "normalize"
    /\ normalized' = _normalize_username(username)
    /\ normalizedVariant' = _normalize_username(variant)
    /\ pc' = "renormalize"
    /\ UNCHANGED <<username, variant, renormalized, loadVars, mainVars>>

\* the result is normalized again
Renormalize ==
    /\ pc = "renormalize"
    /\ renormalized' = _normalize_username(normalized)
    /\ pc' = "normalize_done"
    /\ UNCHANGED <<username, variant, normalized, normalizedVariant, loadVars, mainVars>>

NextNormalize == Normalize \/ Renormalize

SpecNormalize == InitNormalize /\ [][NextNormalize]_vars

-----------------------------------------------------------------------------
(* Specification of load_usernames on enumerated documents *)

JBool == [tag |-> "bool", val |-> <<>>]

\* {"string_list_data": [{"value": "A"}]}
recListed ==
    JDict(<<[k |-> "string_list_data",
             v |-> JList(<<JDict(<<[k |-> "value", v |-> JStr(<<"A">>)]>>)>>)]>>)

\* {"username": "b"}
recFlat == JDict(<<[k |-> "username", v |-> JStr(<<"b">>)]>>)

\* documents that are not a list and not a mapping
ScalarDocs == {JNull, JNum, JBool, JStr(<<"a">>)}

\* elements of the list-shaped documents: two records and three non-mappings
ListElements == {recListed, recFlat, JNull, JStr(<<"a">>), JList(<<recFlat>>)}

ListDocs == {JList(items) : items \in UNION {[1..n -> ListElements] : n \in 0..MaxItems}}

\* keys of the mapping-shaped documents: the known ones and two others
DocKeys ==
    {"relationships_following", "relationships_followers", "following", "followers",
     "other", "extra"}

\* values of the mapping-shaped documents: three lists and a text
DocValues ==
    {JList(<<recListed, JNull>>), JList(<<JStr(<<"a">>), recFlat>>), JList(<<>>),
     JStr(<<"a">>)}

\* the enumerations of n distinct keys
KeyOrders(n) ==
    {ks \in [1..n -> DocKeys] : \A i \in 1..n, j \in 1..n : ks[i] = ks[j] => i = j}

MappingDocs ==
    {JDict([i \in 1..Len(ks) |-> [k |-> ks[i], v |-> vs[i]]]) :
        <<ks, vs>> \in UNION {KeyOrders(n) \X [1..n -> DocValues] : n \in 0..MaxEntries}}

\* texts held by the fields of the enumerated records
RecordTexts == {<<>>, <<" ">>, <<"@">>, <<"A">>, <<" ", "b">>}

\* a field the record does not have
Absent == [tag |-> "absent", val |-> <<>>]

Field(key, option) == IF option = Absent THEN <<>> ELSE <<[k |-> key, v |-> option]>>

\* first elements of string_list_data
Firsts ==
    {JStr(<<"a">>), JDict(<<>>), JDict(Field("value", JNum))}
        \cup {JDict(Field("value", JStr(t))) : t \in RecordTexts}

\* a later element of string_list_data, holding a filled value
laterElement == JDict(Field("value", JStr(<<"c">>)))

ListedOptions ==
    {Absent, JNull, JStr(<<"a">>), JList(<<>>)}
        \cup {JList(<<f>>) : f \in Firsts}
        \cup {JList(<<f, laterElement>>) : f \in Firsts}

FlatOptions == {Absent, JNum} \cup {JStr(t) : t \in RecordTexts}

Records ==
    {JDict(Field("string_list_data", l) \o Field("username", u) \o Field("value", w)) :
        l \in ListedOptions, u \in FlatOptions, w \in FlatOptions}

RecordDocs == {JList(<<r>>) : r \in Records}

InitLoad ==
    /\ pc = "load"
    /\ data \in ScalarDocs \cup ListDocs \cup MappingDocs \cup RecordDocs
    /\ candidates = <<>>
    /\ idx = 0
    /\ usernames = {}
    /\ IdleNormalize
    /\ IdleMain

\* lines 56-58: candidates = _extract_candidates(data); usernames = set()
LoadExtract ==
    /\ pc = "load"
    /\ candidates' = _extract_candidates(data)
    /\ usernames' = {}
    /\ idx' = 1
    /\ pc' = "load_loop"
    /\ UNCHANGED <<data, normVars, mainVars>>

\* lines 60-74: one pass of the loop over the candidates
LoadItem ==
    /\ pc = "load_loop"
    /\ idx <= Len(candidates)
    /\ usernames' = usernames \cup ItemUsernames(candidates[idx])
    /\ idx' = idx + 1
    /\ UNCHANGED <<pc, data, candidates, normVars, mainVars>>

\* line 76: return usernames
LoadReturn ==
    /\ pc = "load_loop"
    /\ idx > Len(candidates)
    /\ pc' = "load_done"
    /\ UNCHANGED <<loadVars, normVars, mainVars>>

NextLoad == LoadExtract \/ LoadItem \/ LoadReturn

SpecLoad == InitLoad /\ [][NextLoad]_vars

-----------------------------------------------------------------------------
(* Specification of main *)

\* {"string_list_data": [{"value": text}]}
Listed(text) ==
    JDict(<<[k |-> "string_list_data",
             v |-> JList(<<JDict(<<[k |-> "value", v |-> JStr(text)]>>)>>)]>>)

\* records of the enumerated export files
MainRecords ==
    {Listed(<<"B">>), Listed(<<"@", "b">>), Listed(<<"a">>),
     JDict(<<[k |-> "username", v |-> JStr(<<"a", "b">>)]>>)}

\* three further exports: three records out of order, a mapping, and null
SampleExports ==
    {JList(<<Listed(<<"B">>), Listed(<<"A", "b">>), Listed(<<" ", "a">>)>>),
     JDict(<<[k |-> "relationships_following",
              v |-> JList(<<Listed(<<"b">>), Listed(<<"A">>)>>)]>>),
     JNull}

MainDocs ==
    {JList(rs) : rs \in UNION {[1..n -> MainRecords] : n \in 0..MaxRecords}}
        \cup SampleExports

Files == {AbsentFile, InvalidFile} \cup {JsonFile(d) : d \in MainDocs}

Init ==
    /\ pc = "main"
    /\ followersFile \in Files
    /\ followingFile \in Files
    /\ outFile \in {NoCsv, StaleCsv}
    /\ followers = {}
    /\ following = {}
    /\ not_following_back = <<>>
    /\ exitCode = 0
    /\ IdleNormalize
    /\ IdleLoad

\* raise SystemExit(message), or an exception nothing catches: status 1
Abort ==
    /\ pc' = "exited"
    /\ exitCode' = 1

\* lines 92-95: if not followers_path.exists(): raise SystemExit
CheckFollowers ==
    /\ pc = "main"
    /\ IF followersFile.state = "absent"
       THEN Abort
       ELSE pc' = "check_following" /\ UNCHANGED exitCode
    /\ UNCHANGED <<fileVars, followers, following, not_following_back, normVars, loadVars>>

\* lines 96-99: if not following_path.exists(): raise SystemExit
CheckFollowing ==
    /\ pc = "check_following"
    /\ IF followingFile.state = "absent"
       THEN Abort
       ELSE pc' = "load_followers" /\ UNCHANGED exitCode
    /\ UNCHANGED <<fileVars, followers, following, not_following_back, normVars, loadVars>>

\* a load that takes a file that is not JSON for an empty export
LoadFollowersLenient ==
    /\ pc = "load_followers"
    /\ followers' = load_usernames(followersFile.doc)
    /\ pc' = "load_following"
    /\ UNCHANGED <<fileVars, following, not_following_back, exitCode, normVars, loadVars>>

\* line 101: followers = load_usernames(followers_path); json.loads raises
\* on text that is not JSON
LoadFollowers ==
    /\ pc = "load_followers"
    /\ IF followersFile.state = "invalid"
       THEN Abort /\ UNCHANGED followers
       ELSE /\ followers' = load_usernames(followersFile.doc)
            /\ pc' = "load_following"
            /\ UNCHANGED exitCode
    /\ UNCHANGED <<fileVars, following, not_following_back, normVars, loadVars>>

\* line 102: following = load_usernames(following_path)
LoadFollowing ==
    /\ pc = "load_following"
    /\ IF followingFile.state = "invalid"
       THEN Abort /\ UNCHANGED following
       ELSE /\ following' = load_usernames(followingFile.doc)
            /\ pc' = "diff"
            /\ UNCHANGED exitCode
    /\ UNCHANGED <<fileVars, followers, not_following_back, normVars, loadVars>>

\* line 104: not_following_back = sorted(following - followers)
Diff ==
    /\ pc = "diff"
    /\ not_following_back' = sorted(following \ followers)
    /\ pc' = "write_csv"
    /\ UNCHANGED <<fileVars, followers, following, exitCode, normVars, loadVars>>

\* line 113 and write_csv: the file is opened for writing and takes the
\* header and the rows; main returns and the process exits with status 0
WriteCsv ==
    /\ pc = "write_csv"
    /\ outFile' = [exists |-> TRUE, rows |-> CsvRows(not_following_back)]
    /\ pc' = "exited"
    /\ exitCode' = 0
    /\ UNCHANGED <<followersFile, followingFile, followers, following,
                   not_following_back, normVars, loadVars>>

Next ==
    \/ CheckFollowers
    \/ CheckFollowing
    \/ LoadFollowers
    \/ LoadFollowing
    \/ Diff
    \/ WriteCsv

Spec == Init /\ [][Next]_vars

-----------------------------------------------------------------------------
(* Claims about _normalize_username *)

\* index of the first character of s that is not whitespace (Len(s)+1 if none)
FirstInk(s) ==
    LET ink == {i \in 1..Len(s) : s[i] \notin Whitespace}
    IN  IF ink = {} THEN Len(s) + 1 ELSE CHOOSE i \in ink : \A j \in ink : i <= j

\* index of the last character of s that is not whitespace (0 if none)
LastInk(s) ==
    LET ink == {i \in 1..Len(s) : s[i] \notin Whitespace}
    IN  IF ink = {} THEN 0 ELSE CHOOSE i \in ink : \A j \in ink : j <= i

\* s without its leading and trailing whitespace
Trimmed(s) == SubSeq(s, FirstInk(s), LastInk(s))

\* the number of "@" characters t starts with
LeadingAts(t) ==
    LET runs == {k \in 0..Len(t) : \A i \in 1..k : t[i] = "@"}
    IN  CHOOSE k \in runs : \A m \in runs : m <= k

\* an upper-case letter and its lower-case form
CasePairs == {<<"A", "a">>, <<"B", "b">>, <<"C", "c">>}

\* r is t with every upper-case letter replaced by its lower-case form
IsLowerCaseOf(r, t) ==
    /\ Len(r) = Len(t)
    /\ \A i \in 1..Len(t) :
          IF \E p \in CasePairs : p[1] = t[i]
          THEN <<t[i], r[i]>> \in CasePairs
          ELSE r[i] = t[i]

\* t is u in another letter case, behind at most one added "@", inside added
\* whitespace
IsDecorationOf(t, u) ==
    \E i \in 0..Len(t), a \in 0..1 :
        LET j == Len(t) - i - a - Len(u)
        IN  /\ i + a + Len(u) <= Len(t)
            /\ \A k \in 1..i : t[k] \in Whitespace
            /\ \A k \in 1..j : t[Len(t) + 1 - k] \in Whitespace
            /\ a = 1 => t[i + 1] = "@"
            /\ \A k \in 1..Len(u) :
                  \/ t[i + a + k] = u[k]
                  \/ <<t[i + a + k], u[k]>> \in CasePairs
                  \/ <<u[k], t[i + a + k]>> \in CasePairs

\* s and t differ only by surrounding whitespace, a leading "@" or letter case
DifferOnlyByDecoration(s, t) ==
    \E u \in Strings(MaxLen) : IsDecorationOf(s, u) /\ IsDecorationOf(t, u)

\* C2: normalizing an already normalized username changes nothing:
\* _normalize_username(_normalize_username(s)) = _normalize_username(s).
C2_NormalizeIdempotent ==
    pc = "normalize_done" => renormalized = normalized

\* C3: two usernames that differ only by surrounding whitespace, a leading
\* "@" or letter case have the same normalized form.
C3_DecorationsNormalizeAlike ==
    (pc # "normalize" /\ DifferOnlyByDecoration(username, variant))
        => normalized = normalizedVariant

\* C4 as stated: the normalized form is the trimmed text without at most one
\* leading "@", in lower case, so that of two leading "@" one is kept.
C4_RemovesAtMostOneAt ==
    pc # "normalize" =>
        LET t == Trimmed(username)
            k == IF LeadingAts(t) > 0 THEN 1 ELSE 0
        IN  IsLowerCaseOf(normalized, SubSeq(t, k + 1, Len(t)))

\* C4 amended: the normalized form is the trimmed text without any of its
\* leading "@" characters, in lower case.
C4_RemovesEveryLeadingAt ==
    pc # "normalize" =>
        LET t == Trimmed(username)
        IN  IsLowerCaseOf(normalized, SubSeq(t, LeadingAts(t) + 1, Len(t)))

\* C4 witness: a username of two "@" and an upper-case letter has
\* been normalized, and nothing but the letter is left.
C4_Witness ==
    /\ pc = "normalize_done"
    /\ username = <<"@", "@", "A">>
    /\ normalized = <<"a">>

-----------------------------------------------------------------------------
(* Claims about _extract_candidates and load_usernames *)

\* out is the mapping-typed elements of items, in their order, nothing else
IsDictElementsOf(out, items) ==
    LET keep == {i \in 1..Len(items) : items[i].tag = "dict"}
    IN  /\ Len(out) = Cardinality(keep)
        /\ \A i \in keep : out[Cardinality({j \in keep : j <= i})] = items[i]

Least(S) == CHOOSE i \in S : \A j \in S : i <= j

\* C5: on a mapping, the candidates are the mapping-typed elements of the
\* value of the first known key (in the order relationships_following,
\* relationships_followers, following, followers) that holds a sequence,
\* wherever the other sequences stand; with no such key, of the first
\* sequence-valued entry in enumeration order.
C5_KnownKeysWin ==
    (pc # "load" /\ data.tag = "dict") =>
        LET e == data.val
            known == {i \in 1..Len(common_keys) :
                        \E j \in 1..Len(e) :
                            e[j].k = common_keys[i] /\ e[j].v.tag = "list"}
            lists == {j \in 1..Len(e) : e[j].v.tag = "list"}
        IN  IF known # {}
            THEN LET j == CHOOSE j \in 1..Len(e) : e[j].k = common_keys[Least(known)]
                 IN  IsDictElementsOf(candidates, e[j].v.val)
            ELSE lists # {} => IsDictElementsOf(candidates, e[Least(lists)].v.val)

\* C5 witness: a mapping that lists "extra" and "followers", both holding
\* sequences, before "relationships_following" has been searched, and the
\* candidates are the record under "relationships_following".
C5_Witness ==
    /\ pc = "load_done"
    /\ data.tag = "dict"
    /\ Len(data.val) = 3
    /\ data.val[1] = [k |-> "extra", v |-> JList(<<JStr(<<"a">>), recFlat>>)]
    /\ data.val[2] = [k |-> "followers", v |-> JList(<<>>)]
    /\ data.val[3] = [k |-> "relationships_following", v |-> JList(<<recListed, JNull>>)]
    /\ candidates = <<recListed>>

\* C6: on a sequence, the candidates are exactly the mapping-typed elements
\* of the document in their original order; every other element is dropped
\* and nothing is added.
C6_ListKeepsItsMappings ==
    (pc # "load" /\ data.tag = "list") => IsDictElementsOf(candidates, data.val)

\* C6 witness: a sequence with a non-mapping between two records has been
\* searched and the two records are the candidates, in their order.
C6_Witness ==
    /\ pc = "load_done"
    /\ data = JList(<<recFlat, JNull, recListed>>)
    /\ candidates = <<recFlat, recListed>>

HasKey(d, key) == \E j \in 1..Len(d.val) : d.val[j].k = key

FieldAt(d, key) == d.val[CHOOSE j \in 1..Len(d.val) : d.val[j].k = key].v

\* the field is text with something left after trimming
HasFilledText(d, key) ==
    /\ HasKey(d, key)
    /\ FieldAt(d, key).tag = "str"
    /\ Trimmed(FieldAt(d, key).val) # <<>>

\* the usernames C7 has a record add
ClaimedUsernames(item) ==
    IF /\ HasKey(item, "string_list_data")
       /\ FieldAt(item, "string_list_data").tag = "list"
       /\ Len(FieldAt(item, "string_list_data").val) > 0
       /\ FieldAt(item, "string_list_data").val[1].tag = "dict"
       /\ HasFilledText(FieldAt(item, "string_list_data").val[1], "value")
    THEN {_normalize_username(
            FieldAt(FieldAt(item, "string_list_data").val[1], "value").val)}
    ELSE IF HasFilledText(item, "username")
    THEN {_normalize_username(FieldAt(item, "username").val)}
    ELSE IF HasFilledText(item, "value")
    THEN {_normalize_username(FieldAt(item, "value").val)}
    ELSE {}

\* C7: each pass of the loop adds at most one username: the filled text
\* `value` of the first element of a non-empty string_list_data when that
\* element is a mapping, and then the flat fields are not consulted; else
\* the first of `username`, `value` that is filled text; else nothing.
\* Later elements of string_list_data are never inspected.
C7_OneUsernamePerRecord ==
    [][(pc = "load_loop" /\ idx <= Len(candidates))
        => usernames' = usernames \cup ClaimedUsernames(candidates[idx])]_vars

\* C7 witness: a record whose string_list_data starts with the value "A",
\* goes on with another filled value and stands beside a filled `username`
\* and `value` has been processed, and "a" alone was added.
C7_Witness ==
    /\ pc = "load_done"
    /\ Len(candidates) = 1
    /\ Get(candidates[1], "string_list_data")
         = JList(<<JDict(Field("value", JStr(<<"A">>))), laterElement>>)
    /\ Get(candidates[1], "username") = JStr(<<" ", "b">>)
    /\ Get(candidates[1], "value") = JStr(<<"@">>)
    /\ usernames = {<<"a">>}

\* neither the known keys nor the scan of the values can find a sequence
NoSequenceLocated(doc) ==
    /\ doc.tag # "list"
    /\ doc.tag = "dict" => \A j \in 1..Len(doc.val) : doc.val[j].v.tag # "list"

\* C9: a document in which no sequence is located (a scalar, null, a mapping
\* without a sequence-valued entry) gives no candidates and no usernames.
C9_UnrecognizedShapeIsEmpty ==
    (pc # "load" /\ NoSequenceLocated(data)) =>
        /\ candidates = <<>>
        /\ usernames = {}
        /\ pc = "load_loop" => ENABLED LoadReturn

\* C9 witness: a mapping whose known key "followers" holds a text and whose
\* other entry holds no sequence either has been loaded, with nothing found.
C9_Witness ==
    /\ pc = "load_done"
    /\ data.tag = "dict"
    /\ Len(data.val) = 2
    /\ Get(data, "followers").tag = "str"
    /\ NoSequenceLocated(data)
    /\ candidates = <<>>
    /\ usernames = {}

\* C10: every username load_usernames returns is non-empty and is its own
\* normalized form.
C10_LoadedNamesAreCanonical ==
    pc = "load_done" =>
        \A u \in usernames : u # <<>> /\ _normalize_username(u) = u

-----------------------------------------------------------------------------
(* Claims about main *)

\* s comes before t in lexicographic order of the code points
LexLess(s, t) ==
    \E n \in 0..Len(s) :
        /\ n <= Len(t)
        /\ \A i \in 1..n : s[i] = t[i]
        /\ \/ n = Len(s) /\ n < Len(t)
           \/ n < Len(s) /\ n < Len(t) /\ CodePoint(s[n + 1]) < CodePoint(t[n + 1])

\* C1: after a successful run the file holds the header row and then the
\* elements of load_usernames(following.json) minus
\* load_usernames(followers.json), each once, in strictly ascending
\* lexicographic order.
C1_CsvIsSortedDifference ==
    (pc = "exited" /\ exitCode = 0) =>
        LET expected ==
                load_usernames(followingFile.doc) \ load_usernames(followersFile.doc)
            rows == outFile.rows
        IN  /\ outFile.exists
            /\ Len(rows) = Cardinality(expected) + 1
            /\ rows[1] = <<header>>
            /\ \A i \in 2..Len(rows) : Len(rows[i]) = 1 /\ rows[i][1] \in expected
            /\ \A i \in 2..Len(rows) : i < Len(rows) => LexLess(rows[i][1], rows[i + 1][1])

\* C1 witness: following {b, ab, a} listed out of order, followers {b}, and
\* the file holds the header, a and ab.
C1_Witness ==
    /\ pc = "exited"
    /\ exitCode = 0
    /\ followingFile =
         JsonFile(JList(<<Listed(<<"B">>), Listed(<<"A", "b">>), Listed(<<" ", "a">>)>>))
    /\ followersFile = JsonFile(JList(<<Listed(<<"@", "b">>)>>))
    /\ outFile.rows = << <<header>>, << <<"a">> >>, << <<"a", "b">> >> >>

\* an input file is absent or is not JSON
BadInput ==
    \/ followersFile.state \in {"absent", "invalid"}
    \/ followingFile.state \in {"absent", "invalid"}

\* C8: when followers.json or following.json is absent or is not JSON, the
\* process exits with a non-zero status and not_following_back.csv is never
\* opened: it stays as it was, absent or unchanged.
C8_BadInputWritesNothing ==
    /\ [](BadInput /\ pc = "exited" => exitCode # 0)
    /\ [](BadInput => pc \notin {"diff", "write_csv"})
    /\ [][BadInput => outFile' = outFile]_vars

\* C8 witness: followers.json is an export, following.json is not JSON, the
\* process has exited with status 1 and the file of an earlier run is intact.
C8_Witness ==
    /\ pc = "exited"
    /\ followersFile.state = "json"
    /\ followingFile.state = "invalid"
    /\ exitCode = 1
    /\ outFile = StaleCsv

====
